---- MODULE Spec2Model ----
(***************************************************************************)
(* A model of the PDF compressor: the PDFCompressor pipeline               *)
(* (src/src/PDFCompressor.js), its four strategies (src/src/strategies)    *)
(* and the BatchProcessor (src/bin/setup-dev.js, lines 70-221).            *)
(*                                                                         *)
(* The filesystem, the document codec (pdf-lib) and uuid are external: a   *)
(* filesystem call or a codec call either succeeds or raises, chosen       *)
(* nondeterministically, and the bytes the codec serializes are chosen     *)
(* among CodecSizes.                                                       *)
(***************************************************************************)
EXTENDS Integers, Sequences, FiniteSets, TLC

VARIABLES
    options,          \* PDFCompressor.options
    strategyOptions,  \* the options object of each of the four strategies
    optionsLog,       \* the constructor call and the setOptions calls, in order
    callLog,          \* the compressPDF calls made, in order
    files,            \* the filesystem's regular files: path -> content
    dirs,             \* the filesystem's directories (each a sequence of segments)
    uuids,            \* how many uuidv4() values were drawn
    inv,              \* the compressPDF invocation: its locals and its position
    suspended,        \* a second compressPDF invocation, suspended at an await
    ret,              \* how the compressPDF invocation ended
    stageLog,         \* the optimize calls compressPDF made, in order
    lastStage,        \* what happened inside the optimize call just made
    listing,          \* what fs.readdir gives for each input directory
    batch,            \* the processDirectory invocation: its locals and its position
    batchRet,         \* how the processDirectory invocation ended
    progressLog,      \* the calls of progressCallback, in order
    stop,             \* the caller's request to stop the batch run
    cli               \* the command line program: its locals, its output, its exit

batchVars == <<listing, batch, batchRet, progressLog, stop, cli>>

optionVars == <<options, strategyOptions, optionsLog>>

vars == <<options, strategyOptions, optionsLog, callLog, files, dirs, uuids, inv, ret,
          stageLog, lastStage, suspended, listing, batch, batchRet, progressLog, stop,
          cli>>

(***************************************************************************)
(* Paths. A directory is a sequence of segments, a file path a record of   *)
(* its directory and its name (path.join, path.dirname).                   *)
(***************************************************************************)
join(dir, name) == [dir |-> dir, name |-> name]

dirname(p) == p.dir

RECURSIVE DirStr(_)
DirStr(d) ==
    IF Len(d) = 0 THEN "."
    ELSE IF Len(d) = 1 THEN d[1]
    ELSE DirStr(SubSeq(d, 1, Len(d) - 1)) \o "/" \o d[Len(d)]

\* the string a path is interpolated as in a message
PathStr(p) == DirStr(p.dir) \o "/" \o p.name

IsPrefix(a, b) == Len(a) <= Len(b) /\ SubSeq(b, 1, Len(a)) = a

\* every directory fs.ensureDir(d) leaves in existence: d and its ancestors
Ancestors(d) == {SubSeq(d, 1, k) : k \in 0..Len(d)}

(***************************************************************************)
(* File contents: the bytes are abstracted to their length and to whether  *)
(* the document carries metadata fields.                                   *)
(***************************************************************************)
Bytes(size, meta) == [size |-> size, meta |-> meta]

\* the lengths the codec's save may produce
CodecSizes == {50, 100, 400}

\* the message of a failed filesystem call
IOError == "EIO: i/o error"

\* mutant: the existence check lets every path through
pathExistsAlways(fileMap, p) == TRUE

pathExists(fileMap, p) == p \in DOMAIN fileMap

\* fs.copy(src, dest) and fs.writeFile(dest, bytes), when they succeed
WriteFile(fileMap, dest, bytes) == (dest :> bytes) @@ fileMap

\* mutant: the copy writes no bytes
CopyFileTruncated(fileMap, src, dest) == WriteFile(fileMap, dest, Bytes(0, FALSE))

CopyFile(fileMap, src, dest) == WriteFile(fileMap, dest, fileMap[src])

\* fs.remove(dir), when it succeeds
RemoveTree(fileMap, dir) ==
    [p \in {q \in DOMAIN fileMap : ~IsPrefix(dir, q.dir)} |-> fileMap[p]]

(***************************************************************************)
(* Options objects: a partial object is a function on the fields it has.   *)
(***************************************************************************)
OptionFields ==
    {"optimizeImages", "imageQuality", "removeMetadata", "compressionLevel", "grayscale"}

\* mutant: the spread keeps the first object's value of a field both have
MergeKeepFirst(a, b) ==
    [f \in DOMAIN a \cup DOMAIN b |-> IF f \in DOMAIN a THEN a[f] ELSE b[f]]

\* { ...a, ...b }
Merge(a, b) ==
    [f \in DOMAIN a \cup DOMAIN b |-> IF f \in DOMAIN b THEN b[f] ELSE a[f]]

EmptyObject == [f \in {} |-> FALSE]

\* mutant: grayscale is on unless the caller turns it off
ConstructorOptionsGrayscale(o) ==
    [optimizeImages   |-> IF "optimizeImages" \in DOMAIN o THEN o.optimizeImages ELSE TRUE,
     imageQuality     |-> IF "imageQuality" \in DOMAIN o /\ o.imageQuality # 0
                          THEN o.imageQuality ELSE 80,
     removeMetadata   |-> IF "removeMetadata" \in DOMAIN o THEN o.removeMetadata ELSE TRUE,
     compressionLevel |-> IF "compressionLevel" \in DOMAIN o /\ o.compressionLevel # 0
                          THEN o.compressionLevel ELSE 3,
     grayscale        |-> IF "grayscale" \in DOMAIN o THEN o.grayscale ELSE TRUE]

\* the PDFCompressor constructor's options
ConstructorOptions(o) ==
    [optimizeImages   |-> IF "optimizeImages" \in DOMAIN o THEN o.optimizeImages ELSE TRUE,
     imageQuality     |-> IF "imageQuality" \in DOMAIN o /\ o.imageQuality # 0
                          THEN o.imageQuality ELSE 80,
     removeMetadata   |-> IF "removeMetadata" \in DOMAIN o THEN o.removeMetadata ELSE TRUE,
     compressionLevel |-> IF "compressionLevel" \in DOMAIN o /\ o.compressionLevel # 0
                          THEN o.compressionLevel ELSE 3,
     grayscale        |-> IF "grayscale" \in DOMAIN o THEN o.grayscale ELSE FALSE]

\* new BaseStrategy(options)
BaseStrategyOptions(o) == Merge(EmptyObject, o)

Strategies == {"image", "quality", "metadata", "page"}

(***************************************************************************)
(* Number.prototype.toFixed(2) of (num / den) * 100, as compressPDF and    *)
(* processDirectory compute it. The quotient is rounded to hundredths,     *)
(* half away from zero; a zero denominator gives NaN or an infinity.       *)
(***************************************************************************)
Abs(n) == IF n < 0 THEN -n ELSE n

Pad2(n) == IF n < 10 THEN "0" \o ToString(n) ELSE ToString(n)

PercentToFixed2(num, den) ==
    IF den = 0
    THEN (IF num = 0 THEN "NaN" ELSE IF num < 0 THEN "-Infinity" ELSE "Infinity")
    ELSE LET hundredths == (2 * Abs(num) * 10000 + den) \div (2 * den)
         IN  (IF num < 0 THEN "-" ELSE "")
                 \o ToString(hundredths \div 100) \o "." \o Pad2(hundredths % 100)

(***************************************************************************)
(* The strategies' optimize(inputPath, outputPath, options). Each is the   *)
(* set of ways the call can end: what it leaves in the filesystem, whether *)
(* it raised, and what happened inside (the codec raised, a filesystem     *)
(* call of the try block raised, the catch block ran, metadata was         *)
(* cleared).                                                               *)
(***************************************************************************)
StageDone(fileMap, cleared) ==
    [files |-> fileMap, raised |-> FALSE, error |-> "", codecFailed |-> FALSE,
     ioFailed |-> FALSE, fellBack |-> FALSE, cleared |-> cleared]

\* the catch block: fs.copy(inputPath, outputPath), then console.warn
CatchCopy(fileMap, inputPath, outputPath, codecFailed) ==
    LET caught == [files |-> fileMap, raised |-> FALSE, error |-> "",
                   codecFailed |-> codecFailed, ioFailed |-> ~codecFailed,
                   fellBack |-> TRUE, cleared |-> FALSE]
    IN  {[caught EXCEPT !.raised = TRUE, !.error = IOError]}
        \cup (IF inputPath \in DOMAIN fileMap
              THEN {[caught EXCEPT !.files = CopyFile(fileMap, inputPath, outputPath)]}
              ELSE {})

\* the try block raised: in PDFDocument.load or save (codecFailed), or in
\* fs.readFile, fs.writeFile or fs.copy
TryRaised(fileMap, inputPath, outputPath) ==
    (IF inputPath \in DOMAIN fileMap
     THEN CatchCopy(fileMap, inputPath, outputPath, TRUE)
     ELSE {})
    \cup CatchCopy(fileMap, inputPath, outputPath, FALSE)

PDFMetadataOptimizer_optimize(fileMap, currentOptions, inputPath, outputPath) ==
    (IF inputPath \in DOMAIN fileMap
     THEN IF currentOptions.removeMetadata
          THEN {StageDone(WriteFile(fileMap, outputPath, Bytes(s, FALSE)), TRUE) :
                    s \in CodecSizes}
          ELSE {StageDone(CopyFile(fileMap, inputPath, outputPath), FALSE)}
     ELSE {})
    \cup TryRaised(fileMap, inputPath, outputPath)

\* mutant: the bytes the codec saved stay at the output path
ImageOptimizer_optimizeSaved(fileMap, currentOptions, inputPath, outputPath) ==
    (IF inputPath \in DOMAIN fileMap
     THEN {StageDone(WriteFile(fileMap, outputPath, Bytes(s, fileMap[inputPath].meta)),
                     FALSE) : s \in CodecSizes}
     ELSE {})
    \cup TryRaised(fileMap, inputPath, outputPath)

ImageOptimizer_optimize(fileMap, currentOptions, inputPath, outputPath) ==
    (IF inputPath \in DOMAIN fileMap
     THEN {StageDone(CopyFile(WriteFile(fileMap, outputPath,
                                        Bytes(s, fileMap[inputPath].meta)),
                              inputPath, outputPath), FALSE) : s \in CodecSizes}
     ELSE {})
    \cup TryRaised(fileMap, inputPath, outputPath)

PDFQualityReducer_optimize(fileMap, currentOptions, inputPath, outputPath) ==
    (IF inputPath \in DOMAIN fileMap
     THEN {StageDone(WriteFile(fileMap, outputPath, Bytes(s, fileMap[inputPath].meta)),
                     FALSE) : s \in CodecSizes}
     ELSE {})
    \cup TryRaised(fileMap, inputPath, outputPath)

PDFPageOptimizer_optimize(fileMap, currentOptions, inputPath, outputPath) ==
    (IF inputPath \in DOMAIN fileMap
     THEN {StageDone(WriteFile(fileMap, outputPath, Bytes(s, fileMap[inputPath].meta)),
                     FALSE) : s \in CodecSizes}
     ELSE {})
    \cup TryRaised(fileMap, inputPath, outputPath)

(***************************************************************************)
(* compressPDF(inputPath, outputPath, options), one action per await.      *)
(***************************************************************************)
NoPath == join(<<>>, "")

NoStage == [name |-> "none"]

Idle ==
    [pc |-> "idle", inputPath |-> NoPath, outputPath |-> NoPath,
     overrideOptions |-> EmptyObject, currentOptions |-> EmptyObject,
     tempDir |-> <<>>, initialSize |-> 0, currentFile |-> NoPath, finalSize |-> 0]

Pending == [kind |-> "pending"]

\* the catch of compressPDF: throw new Error(`PDF compression failed: ...`)
Raise(message) ==
    /\ ret' = [kind |-> "raised", message |-> "PDF compression failed: " \o message]
    /\ inv' = [inv EXCEPT !.pc = "done"]

\* no invocation is suspended
NoInvocation == [inv |-> Idle, ret |-> Pending, stageLog |-> <<>>, lastStage |-> NoStage]

\* the invocation has created its workspace and has not ended
HasWorkspace(i) == i.pc \notin {"idle", "done"} /\ i.tempDir # <<>>

\* The workspace of an invocation that raised stays on disk (its directory stays
\* in dirs). Its name is never drawn again and nothing reads its files, so from
\* the next invocation on the model no longer tracks what they hold. The files
\* of an invocation that has not ended stay tracked.
Untrack(fileMap) ==
    [p \in {q \in DOMAIN fileMap :
                \/ ~IsPrefix(<<"temp">>, q.dir)
                \/ HasWorkspace(inv) /\ IsPrefix(inv.tempDir, q.dir)} |-> fileMap[p]]

\* the entry of compressPDF: the options are merged before the first await
Enter(inputPath, outputPath, overrideOptions) ==
    /\ files' = Untrack(files)
    /\ inv' = [Idle EXCEPT !.pc = "pathExists", !.inputPath = inputPath,
                           !.outputPath = outputPath,
                           !.overrideOptions = overrideOptions,
                           !.currentOptions = Merge(options, overrideOptions)]
    /\ callLog' = Append(callLog, [inputPath |-> inputPath, outputPath |-> outputPath,
                                   options |-> overrideOptions])
    /\ ret' = Pending
    /\ stageLog' = <<>>
    /\ lastStage' = NoStage

\* await fs.pathExists(inputPath)
CheckInput ==
    /\ inv.pc = "pathExists"
    /\ IF pathExists(files, inv.inputPath)
       THEN inv' = [inv EXCEPT !.pc = "ensureTemp"] /\ UNCHANGED ret
       ELSE Raise("Input file does not exist: " \o PathStr(inv.inputPath))
    /\ UNCHANGED <<batchVars, suspended, optionVars, callLog, files, dirs, uuids, stageLog, lastStage>>

\* mutant: the workspace has a fixed name, with no random identifier in it
CreateTempDirShared ==
    /\ inv.pc = "ensureTemp"
    /\ uuids' = uuids + 1
    /\ LET tempDir == <<"temp", "work">>
       IN  \/ /\ dirs' = dirs \cup Ancestors(tempDir)
              /\ inv' = [inv EXCEPT !.pc = "statInput", !.tempDir = tempDir]
              /\ UNCHANGED ret
           \/ /\ Raise(IOError)
              /\ UNCHANGED dirs
    /\ UNCHANGED <<batchVars, suspended, optionVars, callLog, files, stageLog, lastStage>>

\* path.join(process.cwd(), 'temp', uuidv4()); await fs.ensureDir(tempDir)
CreateTempDir ==
    /\ inv.pc = "ensureTemp"
    /\ uuids' = uuids + 1
    /\ LET tempDir == <<"temp", "u" \o ToString(uuids + 1)>>
       IN  \/ /\ dirs' = dirs \cup Ancestors(tempDir)
              /\ inv' = [inv EXCEPT !.pc = "statInput", !.tempDir = tempDir]
              /\ UNCHANGED ret
           \/ /\ Raise(IOError)
              /\ UNCHANGED dirs
    /\ UNCHANGED <<batchVars, suspended, optionVars, callLog, files, stageLog, lastStage>>

\* (await fs.stat(inputPath)).size
StatInput ==
    /\ inv.pc = "statInput"
    /\ \/ /\ inv.inputPath \in DOMAIN files
          /\ inv' = [inv EXCEPT !.pc = "copyWorking",
                                !.initialSize = files[inv.inputPath].size]
          /\ UNCHANGED ret
       \/ Raise(IOError)
    /\ UNCHANGED <<batchVars, suspended, optionVars, callLog, files, dirs, uuids, stageLog, lastStage>>

\* mutant: the input file is moved into the workspace
CopyToWorkingMoved ==
    /\ inv.pc = "copyWorking"
    /\ LET workingFile == join(inv.tempDir, "working.pdf")
       IN  \/ /\ inv.inputPath \in DOMAIN files
              /\ files' = [p \in (DOMAIN files \ {inv.inputPath}) \cup {workingFile} |->
                              IF p = workingFile THEN files[inv.inputPath] ELSE files[p]]
              /\ inv' = [inv EXCEPT !.pc = "metadata", !.currentFile = workingFile]
              /\ UNCHANGED ret
           \/ /\ Raise(IOError)
              /\ UNCHANGED files
    /\ UNCHANGED <<batchVars, suspended, optionVars, callLog, dirs, uuids, stageLog, lastStage>>

\* await fs.copy(inputPath, workingFile)
CopyToWorking ==
    /\ inv.pc = "copyWorking"
    /\ LET workingFile == join(inv.tempDir, "working.pdf")
       IN  \/ /\ inv.inputPath \in DOMAIN files
              /\ files' = CopyFile(files, inv.inputPath, workingFile)
              /\ inv' = [inv EXCEPT !.pc = "metadata", !.currentFile = workingFile]
              /\ UNCHANGED ret
           \/ /\ Raise(IOError)
              /\ UNCHANGED files
    /\ UNCHANGED <<batchVars, suspended, optionVars, callLog, dirs, uuids, stageLog, lastStage>>

\* mutant: currentFile is not moved on to the stage's output
RunStageStale(name, outcomes, stageOptions, optimizedFile, nextPc) ==
    \E o \in outcomes :
        /\ files' = o.files
        /\ stageLog' = Append(stageLog, [stage |-> name, input |-> inv.currentFile,
                                         output |-> optimizedFile,
                                         options |-> stageOptions])
        /\ lastStage' = [name |-> name, input |-> inv.currentFile,
                         output |-> optimizedFile,
                         inputBytes |-> files[inv.currentFile],
                         raised |-> o.raised, codecFailed |-> o.codecFailed,
                         ioFailed |-> o.ioFailed, fellBack |-> o.fellBack,
                         cleared |-> o.cleared]
        /\ IF o.raised
           THEN Raise(o.error)
           ELSE /\ inv' = [inv EXCEPT !.pc = nextPc]
                /\ UNCHANGED ret

\* one `await strategy.optimize(currentFile, optimizedFile, arg)` of compressPDF
\* and the assignment to currentFile after it
RunStage(name, outcomes, stageOptions, optimizedFile, nextPc) ==
    \E o \in outcomes :
        /\ files' = o.files
        /\ stageLog' = Append(stageLog, [stage |-> name, input |-> inv.currentFile,
                                         output |-> optimizedFile,
                                         options |-> stageOptions])
        /\ lastStage' = [name |-> name, input |-> inv.currentFile,
                         output |-> optimizedFile,
                         inputBytes |-> files[inv.currentFile],
                         raised |-> o.raised, codecFailed |-> o.codecFailed,
                         ioFailed |-> o.ioFailed, fellBack |-> o.fellBack,
                         cleared |-> o.cleared]
        /\ IF o.raised
           THEN Raise(o.error)
           ELSE /\ inv' = [inv EXCEPT !.pc = nextPc, !.currentFile = optimizedFile]
                /\ UNCHANGED ret

\* if (currentOptions.removeMetadata) await this.metadataOptimizer.optimize(...)
MetadataStage ==
    /\ inv.pc = "metadata"
    /\ LET optimizedFile == join(inv.tempDir, "metadata-optimized.pdf")
           stageOptions == Merge(strategyOptions["metadata"], EmptyObject)
       IN  IF inv.currentOptions.removeMetadata
           THEN RunStage("metadata",
                         PDFMetadataOptimizer_optimize(files, stageOptions,
                                                       inv.currentFile, optimizedFile),
                         stageOptions, optimizedFile, "image")
           ELSE /\ inv' = [inv EXCEPT !.pc = "image"]
                /\ lastStage' = NoStage
                /\ UNCHANGED <<files, ret, stageLog>>
    /\ UNCHANGED <<batchVars, suspended, optionVars, callLog, dirs, uuids>>

\* if (currentOptions.optimizeImages) await this.imageOptimizer.optimize(...)
ImageStage ==
    /\ inv.pc = "image"
    /\ LET optimizedFile == join(inv.tempDir, "image-optimized.pdf")
           stageOptions == Merge(strategyOptions["image"], EmptyObject)
       IN  IF inv.currentOptions.optimizeImages
           THEN RunStage("image",
                         ImageOptimizer_optimize(files, stageOptions,
                                                 inv.currentFile, optimizedFile),
                         stageOptions, optimizedFile, "quality")
           ELSE /\ inv' = [inv EXCEPT !.pc = "quality"]
                /\ lastStage' = NoStage
                /\ UNCHANGED <<files, ret, stageLog>>
    /\ UNCHANGED <<batchVars, suspended, optionVars, callLog, dirs, uuids>>

\* await this.qualityReducer.optimize(currentFile, qualityOptimizedFile,
\*     { compressionLevel, grayscale })
QualityStage ==
    /\ inv.pc = "quality"
    /\ LET qualityOptimizedFile == join(inv.tempDir, "quality-optimized.pdf")
           stageOptions ==
               Merge(strategyOptions["quality"],
                     [compressionLevel |-> inv.currentOptions.compressionLevel,
                      grayscale |-> inv.currentOptions.grayscale])
       IN  RunStage("quality",
                    PDFQualityReducer_optimize(files, stageOptions,
                                               inv.currentFile, qualityOptimizedFile),
                    stageOptions, qualityOptimizedFile, "page")
    /\ UNCHANGED <<batchVars, suspended, optionVars, callLog, dirs, uuids>>

\* await this.pageOptimizer.optimize(currentFile, pageOptimizedFile)
PageStage ==
    /\ inv.pc = "page"
    /\ LET pageOptimizedFile == join(inv.tempDir, "page-optimized.pdf")
           stageOptions == Merge(strategyOptions["page"], EmptyObject)
       IN  RunStage("page",
                    PDFPageOptimizer_optimize(files, stageOptions,
                                              inv.currentFile, pageOptimizedFile),
                    stageOptions, pageOptimizedFile, "ensureOut")
    /\ UNCHANGED <<batchVars, suspended, optionVars, callLog, dirs, uuids>>

\* fs.ensureDir(dir): it succeeds on an existing directory, and creating a
\* missing one may fail
CanFailEnsureDir(dir) == dir \notin dirs

\* await fs.ensureDir(path.dirname(outputPath))
EnsureOutputDir ==
    /\ inv.pc = "ensureOut"
    /\ \/ /\ dirs' = dirs \cup Ancestors(dirname(inv.outputPath))
          /\ inv' = [inv EXCEPT !.pc = "copyOut"]
          /\ UNCHANGED ret
       \/ /\ CanFailEnsureDir(dirname(inv.outputPath))
          /\ Raise(IOError)
          /\ UNCHANGED dirs
    /\ lastStage' = NoStage
    /\ UNCHANGED <<batchVars, suspended, optionVars, callLog, files, uuids, stageLog>>

\* await fs.copy(currentFile, outputPath)
CopyToOutput ==
    /\ inv.pc = "copyOut"
    /\ \/ /\ inv.currentFile \in DOMAIN files
          /\ files' = CopyFile(files, inv.currentFile, inv.outputPath)
          /\ inv' = [inv EXCEPT !.pc = "statOut"]
          /\ UNCHANGED ret
       \/ /\ Raise(IOError)
          /\ UNCHANGED files
    /\ UNCHANGED <<batchVars, suspended, optionVars, callLog, dirs, uuids, stageLog, lastStage>>

\* (await fs.stat(outputPath)).size
StatOutput ==
    /\ inv.pc = "statOut"
    /\ \/ /\ inv.outputPath \in DOMAIN files
          /\ inv' = [inv EXCEPT !.pc = "removeTemp",
                                !.finalSize = files[inv.outputPath].size]
          /\ UNCHANGED ret
       \/ Raise(IOError)
    /\ UNCHANGED <<batchVars, suspended, optionVars, callLog, files, dirs, uuids, stageLog, lastStage>>

\* mutant: the savings are subtracted the wrong way round
CompressionResultReversed(initialSize, finalSize, inputPath, outputPath) ==
    LET savings == finalSize - initialSize
    IN  [success |-> TRUE, inputSize |-> initialSize, outputSize |-> finalSize,
         savings |-> savings,
         percentReduction |-> PercentToFixed2(savings, initialSize) \o "%",
         inputPath |-> inputPath, outputPath |-> outputPath]

\* savings, percentReduction and the object compressPDF returns
CompressionResult(initialSize, finalSize, inputPath, outputPath) ==
    LET savings == initialSize - finalSize
    IN  [success |-> TRUE, inputSize |-> initialSize, outputSize |-> finalSize,
         savings |-> savings,
         percentReduction |-> PercentToFixed2(savings, initialSize) \o "%",
         inputPath |-> inputPath, outputPath |-> outputPath]

\* await fs.remove(tempDir); return { ... }
RemoveTempAndReturn ==
    /\ inv.pc = "removeTemp"
    /\ \/ /\ files' = RemoveTree(files, inv.tempDir)
          /\ dirs' = {d \in dirs : ~IsPrefix(inv.tempDir, d)}
          /\ ret' = [kind |-> "returned",
                     result |-> CompressionResult(inv.initialSize, inv.finalSize,
                                                  inv.inputPath, inv.outputPath)]
          /\ inv' = [inv EXCEPT !.pc = "done"]
       \/ /\ Raise(IOError)
          /\ UNCHANGED <<files, dirs>>
    /\ UNCHANGED <<batchVars, suspended, optionVars, callLog, uuids, stageLog, lastStage>>

\* compressPDF from its first await to its end
CompressStep ==
    \/ CheckInput
    \/ CreateTempDir
    \/ StatInput
    \/ CopyToWorking
    \/ MetadataStage
    \/ ImageStage
    \/ QualityStage
    \/ PageStage
    \/ EnsureOutputDir
    \/ CopyToOutput
    \/ StatOutput
    \/ RemoveTempAndReturn

(***************************************************************************)
(* getOptions() and setOptions(options).                                   *)
(***************************************************************************)
\* { ...this.options }
getOptions == Merge(EmptyObject, options)

\* mutant: the fields the update omits fall back to the constructor's defaults
setOptionsFromDefaults(current, update) == Merge(ConstructorOptions(EmptyObject), update)

\* this.options = { ...this.options, ...options }
setOptions(current, update) == Merge(current, update)

\* mutant: the strategy keeps the options it was constructed with
updateOptionsStale(current, update) == current

\* strategy.updateOptions(this.options)
updateOptions(current, update) == Merge(current, update)

\* the most setOptions calls a caller makes on one compressor
MaxUpdates == 2

\* the option objects a caller passes to setOptions
SetOptionsInputs ==
    {[imageQuality |-> 50, grayscale |-> TRUE], [imageQuality |-> 70],
     [removeMetadata |-> FALSE]}

\* a caller's compressor.setOptions(update), between invocations
SetOptions ==
    /\ inv.pc = "idle"
    /\ Len(optionsLog) <= MaxUpdates
    /\ \E update \in SetOptionsInputs :
        LET updated == setOptions(options, update)
        IN  /\ options' = updated
            /\ strategyOptions' =
                   [s \in Strategies |-> updateOptions(strategyOptions[s], updated)]
            /\ optionsLog' = Append(optionsLog, [call |-> "setOptions",
                                                 argument |-> update,
                                                 options |-> updated])
    /\ UNCHANGED <<batchVars, suspended, callLog, files, dirs, uuids, inv, ret, stageLog, lastStage>>

(***************************************************************************)
(* BatchProcessor._findPDFFiles(dir, recursive) over the directory tree    *)
(* that fs.readdir lists.                                                  *)
(***************************************************************************)
UpperCase == "ABCDEFGHIJKLMNOPQRSTUVWXYZ"

LowerCase == "abcdefghijklmnopqrstuvwxyz"

LowerChar(c) ==
    IF \E k \in 1..Len(UpperCase) : SubSeq(UpperCase, k, k) = c
    THEN LET k == CHOOSE k \in 1..Len(UpperCase) : SubSeq(UpperCase, k, k) = c
         IN  SubSeq(LowerCase, k, k)
    ELSE c

RECURSIVE toLowerCase(_)
toLowerCase(str) ==
    IF Len(str) = 0 THEN ""
    ELSE toLowerCase(SubSeq(str, 1, Len(str) - 1)) \o LowerChar(SubSeq(str, Len(str), Len(str)))

endsWith(str, suffix) ==
    /\ Len(suffix) <= Len(str)
    /\ SubSeq(str, Len(str) - Len(suffix) + 1, Len(str)) = suffix

RECURSIVE FindIn(_, _, _, _)
\* the loop of _findPDFFiles over entries[k..], in the directory dir
FindIn(tree, dir, recursive, k) ==
    IF k > Len(tree[dir]) THEN <<>>
    ELSE LET entry == tree[dir][k]
             fullPath == join(dir, entry.name)
             found ==
                 IF entry.isDirectory /\ recursive
                 THEN FindIn(tree, dir \o <<entry.name>>, recursive, 1)
                 ELSE IF entry.isFile /\ endsWith(toLowerCase(entry.name), ".pdf")
                 THEN <<fullPath>>
                 ELSE <<>>
         IN  found \o FindIn(tree, dir, recursive, k + 1)

RECURSIVE ReaddirBelow(_, _, _, _)
\* the directories the recursive calls made by the loop of _findPDFFiles over
\* entries[k..] of dir hand to fs.readdir, in the order of the calls
ReaddirBelow(tree, dir, recursive, k) ==
    IF k > Len(tree[dir]) THEN <<>>
    ELSE LET entry == tree[dir][k]
             fullPath == dir \o <<entry.name>>
             below ==
                 IF entry.isDirectory /\ recursive
                 THEN <<fullPath>> \o ReaddirBelow(tree, fullPath, recursive, 1)
                 ELSE <<>>
         IN  below \o ReaddirBelow(tree, dir, recursive, k + 1)

\* the directories one _findPDFFiles(dir, recursive) hands to fs.readdir
ReaddirCalls(tree, dir, recursive) == <<dir>> \o ReaddirBelow(tree, dir, recursive, 1)

\* mutant: subdirectories are never searched
_findPDFFilesFlat(tree, dir, recursive) == FindIn(tree, dir, FALSE, 1)

_findPDFFiles(tree, dir, recursive) == FindIn(tree, dir, recursive, 1)

(***************************************************************************)
(* processDirectory(inputDir, outputDir, { recursive, progressCallback }), *)
(* one action per await of its own; the awaits of the compressPDF it calls *)
(* are the actions of CompressStep.                                        *)
(***************************************************************************)
BatchIdle ==
    [pc |-> "idle", inputDir |-> <<>>, outputDir |-> <<>>, recursive |-> FALSE,
     hasCallback |-> FALSE, files |-> <<>>, i |-> 0, totalInputSize |-> 0,
     totalOutputSize |-> 0, results |-> <<>>]

\* an error leaves processDirectory
BatchRaise(message) ==
    /\ batchRet' = [kind |-> "raised", message |-> message]
    /\ batch' = [batch EXCEPT !.pc = "done"]

\* mutant: the output directory is created before the input directory is checked
BatchCheckInputDirLate ==
    /\ batch.pc = "pathExists"
    /\ dirs' = dirs \cup Ancestors(batch.outputDir)
    /\ IF batch.inputDir \in dirs
       THEN batch' = [batch EXCEPT !.pc = "ensureOutputDir"] /\ UNCHANGED batchRet
       ELSE BatchRaise("Input directory does not exist: " \o DirStr(batch.inputDir))
    /\ UNCHANGED <<optionVars, suspended, stop, cli, callLog, files, uuids, inv, ret, stageLog,
                   lastStage, listing, progressLog>>

\* await fs.pathExists(inputDir)
BatchCheckInputDir ==
    /\ batch.pc = "pathExists"
    /\ IF batch.inputDir \in dirs
       THEN batch' = [batch EXCEPT !.pc = "ensureOutputDir"] /\ UNCHANGED batchRet
       ELSE BatchRaise("Input directory does not exist: " \o DirStr(batch.inputDir))
    /\ UNCHANGED <<optionVars, suspended, stop, cli, callLog, files, dirs, uuids, inv, ret, stageLog,
                   lastStage, listing, progressLog>>

\* await fs.ensureDir(outputDir)
BatchEnsureOutputDir ==
    /\ batch.pc = "ensureOutputDir"
    /\ \/ /\ dirs' = dirs \cup Ancestors(batch.outputDir)
          /\ batch' = [batch EXCEPT !.pc = "findFiles"]
          /\ UNCHANGED batchRet
       \/ /\ CanFailEnsureDir(batch.outputDir)
          /\ BatchRaise(IOError)
          /\ UNCHANGED dirs
    /\ UNCHANGED <<optionVars, suspended, stop, cli, callLog, files, uuids, inv, ret, stageLog,
                   lastStage, listing, progressLog>>

\* mutant: no early return, the percentage is computed from the zero totals
EmptyBatchResultComputed ==
    [success |-> TRUE, filesProcessed |-> 0, totalSavings |-> 0,
     percentReduction |-> PercentToFixed2(0, 0) \o "%"]

\* the object processDirectory returns when no file was found
EmptyBatchResult ==
    [success |-> TRUE, filesProcessed |-> 0, totalSavings |-> 0,
     percentReduction |-> "0.00%"]

\* r.error as a condition
HasError(r) == "error" \in DOMAIN r /\ r.error # ""

\* the statistics and the object processDirectory returns after its loop
BatchResult(found, totalInputSize, totalOutputSize, results) ==
    LET totalSavings == totalInputSize - totalOutputSize
    IN  [success |-> TRUE,
         filesProcessed |-> Len(found),
         filesSucceeded |-> Cardinality({k \in DOMAIN results : ~HasError(results[k])}),
         filesFailed |-> Cardinality({k \in DOMAIN results : HasError(results[k])}),
         totalInputSize |-> totalInputSize,
         totalOutputSize |-> totalOutputSize,
         totalSavings |-> totalSavings,
         percentReduction |-> IF totalInputSize > 0
                              THEN PercentToFixed2(totalSavings, totalInputSize) \o "%"
                              ELSE "0.00%",
         results |-> results]

\* const files = await this._findPDFFiles(inputDir, recursive);
\* if (files.length === 0) return { ... }
FindFiles ==
    /\ batch.pc = "findFiles"
    /\ \/ LET found == _findPDFFiles(listing, batch.inputDir, batch.recursive)
          IN  IF Len(found) = 0
              THEN /\ batchRet' = [kind |-> "returned", result |-> EmptyBatchResult]
                   /\ batch' = [batch EXCEPT !.pc = "done", !.files = found]
              ELSE /\ batch' = [batch EXCEPT !.pc = "loopEnsureDir", !.files = found,
                                             !.i = 0, !.totalInputSize = 0,
                                             !.totalOutputSize = 0, !.results = <<>>]
                   /\ UNCHANGED batchRet
       \/ BatchRaise(IOError)
    /\ UNCHANGED <<optionVars, suspended, stop, cli, callLog, files, dirs, uuids, inv, ret, stageLog,
                   lastStage, listing, progressLog>>

\* path.join(outputDir, path.relative(inputDir, inputFile))
OutputFileOf(inputDir, outputDir, inputFile) ==
    join(outputDir \o SubSeq(inputFile.dir, Len(inputDir) + 1, Len(inputFile.dir)),
         inputFile.name)

\* the top of the loop body: await fs.ensureDir(path.dirname(outputFile))
LoopEnsureDir ==
    /\ batch.pc = "loopEnsureDir"
    /\ LET inputFile == batch.files[batch.i + 1]
           outputFile == OutputFileOf(batch.inputDir, batch.outputDir, inputFile)
       IN  \/ /\ dirs' = dirs \cup Ancestors(dirname(outputFile))
              /\ batch' = [batch EXCEPT !.pc = "try"]
              /\ UNCHANGED batchRet
           \/ /\ CanFailEnsureDir(dirname(outputFile))
              /\ BatchRaise(IOError)
              /\ UNCHANGED dirs
    /\ UNCHANGED <<optionVars, suspended, stop, cli, callLog, files, uuids, inv, ret, stageLog,
                   lastStage, listing, progressLog>>

\* mutant: the loop index is not incremented before the next iteration
EndIterationStuck(totalInputSize, totalOutputSize, results) ==
    IF batch.i + 1 < Len(batch.files)
    THEN /\ batch' = [batch EXCEPT !.pc = "loopEnsureDir",
                                   !.totalInputSize = totalInputSize,
                                   !.totalOutputSize = totalOutputSize,
                                   !.results = results]
         /\ UNCHANGED batchRet
    ELSE /\ batch' = [batch EXCEPT !.pc = "done", !.i = batch.i + 1,
                                   !.totalInputSize = totalInputSize,
                                   !.totalOutputSize = totalOutputSize,
                                   !.results = results]
         /\ batchRet' = [kind |-> "returned",
                         result |-> BatchResult(batch.files, totalInputSize,
                                                totalOutputSize, results)]

\* the end of a loop iteration with its record pushed: i++, and after the last
\* file the statistics and the return
EndIteration(totalInputSize, totalOutputSize, results) ==
    IF batch.i + 1 < Len(batch.files)
    THEN /\ batch' = [batch EXCEPT !.pc = "loopEnsureDir", !.i = batch.i + 1,
                                   !.totalInputSize = totalInputSize,
                                   !.totalOutputSize = totalOutputSize,
                                   !.results = results]
         /\ UNCHANGED batchRet
    ELSE /\ batch' = [batch EXCEPT !.pc = "done", !.i = batch.i + 1,
                                   !.totalInputSize = totalInputSize,
                                   !.totalOutputSize = totalOutputSize,
                                   !.results = results]
         /\ batchRet' = [kind |-> "returned",
                         result |-> BatchResult(batch.files, totalInputSize,
                                                totalOutputSize, results)]

\* mutant: the catch of the loop body pushes no record
CatchFileSilent(inputFile, outputFile, message) ==
    EndIteration(batch.totalInputSize, batch.totalOutputSize, batch.results)

\* the catch of the loop body: results.push({ inputFile, outputFile, error })
CatchFile(inputFile, outputFile, message) ==
    EndIteration(batch.totalInputSize, batch.totalOutputSize,
                 Append(batch.results, [inputFile |-> inputFile, outputFile |-> outputFile,
                                        error |-> message]))

\* the messages of the errors a progress callback throws
CallbackErrors == {"progress failed", ""}

\* the try of the loop body up to its await: the progress callback, then the
\* call of compressPDF
LoopTry ==
    /\ batch.pc = "try"
    /\ LET inputFile == batch.files[batch.i + 1]
           outputFile == OutputFileOf(batch.inputDir, batch.outputDir, inputFile)
           called == [currentFile |-> inputFile, currentIndex |-> batch.i,
                      totalFiles |-> Len(batch.files),
                      progress |-> <<batch.i * 100, Len(batch.files)>>]
           compress == /\ Enter(inputFile, outputFile, EmptyObject)
                       /\ batch' = [batch EXCEPT !.pc = "compress"]
                       /\ UNCHANGED batchRet
       IN  IF batch.hasCallback
           THEN /\ progressLog' = Append(progressLog, called)
                /\ \/ compress
                   \/ \E message \in CallbackErrors :
                        /\ CatchFile(inputFile, outputFile, message)
                        /\ UNCHANGED <<files, inv, ret, stageLog, lastStage, callLog>>
           ELSE /\ compress
                /\ UNCHANGED progressLog
    /\ UNCHANGED <<optionVars, suspended, stop, cli, dirs, uuids, listing>>

\* the rest of the loop body, once compressPDF has ended
LoopAfterCompress ==
    /\ batch.pc = "compress"
    /\ inv.pc = "done"
    /\ LET inputFile == batch.files[batch.i + 1]
           outputFile == OutputFileOf(batch.inputDir, batch.outputDir, inputFile)
       IN  IF ret.kind = "returned"
           THEN EndIteration(batch.totalInputSize + ret.result.inputSize,
                             batch.totalOutputSize + ret.result.outputSize,
                             Append(batch.results,
                                    [inputFile |-> inputFile, outputFile |-> outputFile,
                                     inputSize |-> ret.result.inputSize,
                                     outputSize |-> ret.result.outputSize,
                                     savings |-> ret.result.savings,
                                     percentReduction |-> ret.result.percentReduction]))
           ELSE CatchFile(inputFile, outputFile, ret.message)
    /\ UNCHANGED <<optionVars, suspended, stop, cli, callLog, files, dirs, uuids, inv, ret, stageLog,
                   lastStage, listing, progressLog>>

\* no stop was requested
NoStop == [requested |-> FALSE, at |-> 0]

\* The caller asks for the batch run to stop while the file of index batch.i is
\* in flight. processDirectory takes no such request: its options are
\* recursive and progressCallback only, and its loop tests nothing but
\* i < files.length, so the request changes nothing the run reads.
RequestStop ==
    /\ batch.pc \in {"loopEnsureDir", "try", "compress"}
    /\ ~stop.requested
    /\ stop' = [requested |-> TRUE, at |-> batch.i]
    /\ UNCHANGED <<optionVars, suspended, cli, callLog, files, dirs, uuids, inv, ret, stageLog,
                   lastStage, listing, batch, batchRet, progressLog>>

BatchStep ==
    \/ BatchCheckInputDir
    \/ BatchEnsureOutputDir
    \/ FindFiles
    \/ LoopEnsureDir
    \/ LoopTry
    \/ LoopAfterCompress

(***************************************************************************)
(* The command line program run on a directory (src/unnamed/part_000, the  *)
(* action at lines 245-368), one action per await of its own; the awaits   *)
(* of the compressPDF it calls are the actions of CompressStep. A line it  *)
(* prints is a record of the values the line interpolates.                 *)
(***************************************************************************)
CliIdle ==
    [pc |-> "idle", input |-> <<>>, output |-> <<>>, recursive |-> FALSE,
     pdfFiles |-> <<>>, i |-> 0, totalOriginalSize |-> 0, totalCompressedSize |-> 0,
     printed |-> <<>>, exitCode |-> 0]

\* the catch of the action: console.error(`Error: ${error.message}`);
\* process.exit(1)
CliFail(message) ==
    cli' = [cli EXCEPT !.pc = "exited", !.exitCode = 1,
                       !.printed = Append(cli.printed,
                                          [line |-> "Error", message |-> message])]

\* const stats = await fs.stat(input), for an input that is a directory
CliStat ==
    /\ cli.pc = "stat"
    /\ \/ /\ cli.input \in dirs
          /\ cli' = [cli EXCEPT !.pc = "ensureOutput"]
       \/ CliFail(IOError)
    /\ UNCHANGED <<optionVars, suspended, stop, callLog, files, dirs, uuids, inv, ret,
                   stageLog, lastStage, listing, batch, batchRet, progressLog>>

\* await fs.ensureDir(output)
CliEnsureOutputDir ==
    /\ cli.pc = "ensureOutput"
    /\ \/ /\ dirs' = dirs \cup Ancestors(cli.output)
          /\ cli' = [cli EXCEPT !.pc = "findFiles"]
       \/ /\ CanFailEnsureDir(cli.output)
          /\ CliFail(IOError)
          /\ UNCHANGED dirs
    /\ UNCHANGED <<optionVars, suspended, stop, callLog, files, uuids, inv, ret,
                   stageLog, lastStage, listing, batch, batchRet, progressLog>>

RECURSIVE FilesIn(_, _, _, _)
\* the loop of getFilesInDirectory over entries[k..], in the directory dir
FilesIn(tree, dir, recursive, k) ==
    IF k > Len(tree[dir]) THEN <<>>
    ELSE LET entry == tree[dir][k]
             fullPath == join(dir, entry.name)
             found ==
                 IF entry.isDirectory /\ recursive
                 THEN FilesIn(tree, dir \o <<entry.name>>, recursive, 1)
                 ELSE IF entry.isFile
                 THEN <<fullPath>>
                 ELSE <<>>
         IN  found \o FilesIn(tree, dir, recursive, k + 1)

getFilesInDirectory(tree, dir, recursive) == FilesIn(tree, dir, recursive, 1)

\* files.filter(file => file.toLowerCase().endsWith('.pdf'))
FilterPdf(found) ==
    SelectSeq(found, LAMBDA file : endsWith(toLowerCase(PathStr(file)), ".pdf"))

\* const files = await getFilesInDirectory(input, options.recursive); the
\* filter; if (pdfFiles.length === 0) { console.log(...); return; }
CliFindFiles ==
    /\ cli.pc = "findFiles"
    /\ \/ LET pdfFiles == FilterPdf(getFilesInDirectory(listing, cli.input, cli.recursive))
          IN  IF Len(pdfFiles) = 0
              THEN cli' = [cli EXCEPT !.pc = "exited", !.exitCode = 0,
                                      !.printed = Append(cli.printed,
                                                         [line |-> "No PDF files found"])]
              ELSE cli' = [cli EXCEPT !.pc = "loopEnsureDir", !.pdfFiles = pdfFiles,
                                      !.i = 0, !.totalOriginalSize = 0,
                                      !.totalCompressedSize = 0,
                                      !.printed = Append(cli.printed,
                                                         [line |-> "Found",
                                                          count |-> Len(pdfFiles)])]
       \/ CliFail(IOError)
    /\ UNCHANGED <<optionVars, suspended, stop, callLog, files, dirs, uuids, inv, ret,
                   stageLog, lastStage, listing, batch, batchRet, progressLog>>

\* the position of the last "." of name, 0 if it has none
LastDot(name) ==
    LET dots == {k \in 1..Len(name) : SubSeq(name, k, k) = "."}
    IN  IF dots = {} THEN 0 ELSE CHOOSE k \in dots : \A j \in dots : j <= k

\* path.extname(name)
extname(name) ==
    IF LastDot(name) <= 1 THEN "" ELSE SubSeq(name, LastDot(name), Len(name))

\* path.basename(name, ext)
basename(name, ext) ==
    IF endsWith(name, ext) THEN SubSeq(name, 1, Len(name) - Len(ext)) ELSE name

\* path.join(outputDir, `${outputBase}-compressed${outputExt}`)
FinalOutputFileOf(outputFile) ==
    LET outputExt == extname(outputFile.name)
        outputBase == basename(outputFile.name, outputExt)
    IN  join(dirname(outputFile), outputBase \o "-compressed" \o outputExt)

\* the top of the loop body: await fs.ensureDir(path.dirname(outputFile)),
\* which no try of the loop body encloses
CliLoopEnsureDir ==
    /\ cli.pc = "loopEnsureDir"
    /\ LET inputFile == cli.pdfFiles[cli.i + 1]
           outputFile == OutputFileOf(cli.input, cli.output, inputFile)
       IN  \/ /\ dirs' = dirs \cup Ancestors(dirname(outputFile))
              /\ cli' = [cli EXCEPT !.pc = "try"]
           \/ /\ CanFailEnsureDir(dirname(outputFile))
              /\ CliFail(IOError)
              /\ UNCHANGED dirs
    /\ UNCHANGED <<optionVars, suspended, stop, callLog, files, uuids, inv, ret,
                   stageLog, lastStage, listing, batch, batchRet, progressLog>>

\* the loop body from the output file's name to the await in its try:
\* console.log(`[i+1/N] Compressing ...`) and the call of compressPDF
CliLoopTry ==
    /\ cli.pc = "try"
    /\ LET inputFile == cli.pdfFiles[cli.i + 1]
           outputFile == OutputFileOf(cli.input, cli.output, inputFile)
           finalOutputFile == FinalOutputFileOf(outputFile)
       IN  /\ Enter(inputFile, finalOutputFile, EmptyObject)
           /\ cli' = [cli EXCEPT !.pc = "compress",
                                  !.printed = Append(cli.printed,
                                                     [line |-> "Compressing",
                                                      index |-> cli.i + 1,
                                                      count |-> Len(cli.pdfFiles),
                                                      inputFile |-> inputFile,
                                                      outputFile |-> finalOutputFile])]
    /\ UNCHANGED <<optionVars, suspended, stop, dirs, uuids, listing, batch, batchRet,
                   progressLog>>

\* the rest of the loop body, once compressPDF has ended: the totals and the
\* file's line, or the catch and its line; i++; after the last file the
\* overall results, if (totalOriginalSize > 0), and the end of the action
CliAfterCompress ==
    /\ cli.pc = "compress"
    /\ inv.pc = "done"
    /\ LET inputFile == cli.pdfFiles[cli.i + 1]
           returned == ret.kind = "returned"
           totalOriginalSize ==
               cli.totalOriginalSize + (IF returned THEN ret.result.inputSize ELSE 0)
           totalCompressedSize ==
               cli.totalCompressedSize + (IF returned THEN ret.result.outputSize ELSE 0)
           fileLine ==
               IF returned
               THEN [line |-> "Original", inputFile |-> inputFile,
                     original |-> ret.result.inputSize,
                     compressed |-> ret.result.outputSize,
                     savings |-> ret.result.percentReduction]
               ELSE [line |-> "Error compressing", inputFile |-> inputFile,
                     message |-> ret.message]
           totalSavings == totalOriginalSize - totalCompressedSize
           totalLine ==
               [line |-> "Total", original |-> totalOriginalSize,
                compressed |-> totalCompressedSize, savings |-> totalSavings,
                percentReduction |->
                    PercentToFixed2(totalSavings, totalOriginalSize) \o "%"]
       IN  IF cli.i + 1 < Len(cli.pdfFiles)
           THEN cli' = [cli EXCEPT !.pc = "loopEnsureDir", !.i = cli.i + 1,
                                   !.totalOriginalSize = totalOriginalSize,
                                   !.totalCompressedSize = totalCompressedSize,
                                   !.printed = Append(cli.printed, fileLine)]
           ELSE cli' = [cli EXCEPT !.pc = "exited", !.exitCode = 0, !.i = cli.i + 1,
                                   !.totalOriginalSize = totalOriginalSize,
                                   !.totalCompressedSize = totalCompressedSize,
                                   !.printed =
                                       IF totalOriginalSize > 0
                                       THEN Append(cli.printed, fileLine) \o <<totalLine>>
                                       ELSE Append(cli.printed, fileLine)]
    /\ UNCHANGED <<optionVars, suspended, stop, callLog, files, dirs, uuids, inv, ret,
                   stageLog, lastStage, listing, batch, batchRet, progressLog>>

CliStep ==
    \/ CliStat
    \/ CliEnsureOutputDir
    \/ CliFindFiles
    \/ CliLoopEnsureDir
    \/ CliLoopTry
    \/ CliAfterCompress

(***************************************************************************)
(* The world a compressor is used in: an input directory listing, in this  *)
(* order, some of a PDF file of 100 bytes, a subdirectory holding a PDF    *)
(* file of 200 bytes, a PDF file of 300 bytes whose extension is in upper  *)
(* case, and a file that is no PDF.                                        *)
(***************************************************************************)
InputDir == <<"in">>

SubDir == InputDir \o <<"sub">>

OutputDir == <<"out">>

MissingDir == <<"nowhere">>

MissingInput == join(InputDir, "missing.pdf")

FileEntry(name) == [name |-> name, isFile |-> TRUE, isDirectory |-> FALSE]

DirEntry(name) == [name |-> name, isFile |-> FALSE, isDirectory |-> TRUE]

RootEntries ==
    <<FileEntry("a.pdf"), DirEntry("sub"), FileEntry("c.PDF"), FileEntry("notes.txt")>>

\* a file of no bytes, which only the callers of compressPDF are given
EmptyEntry == FileEntry("empty.pdf")

FileBytes(p) ==
    CASE p.name = "a.pdf" -> Bytes(100, TRUE)
      [] p.name = "b.pdf" -> Bytes(200, TRUE)
      [] p.name = "c.PDF" -> Bytes(300, FALSE)
      [] p.name = "notes.txt" -> Bytes(50, FALSE)
      [] p.name = "empty.pdf" -> Bytes(0, FALSE)

\* the most entries of RootEntries the input directory of a batch lists
MaxEntries == 3

RECURSIVE Pick(_, _)
\* the entries of RootEntries at the positions chosen, in their order
Pick(chosen, k) ==
    IF k > Len(RootEntries) THEN <<>>
    ELSE (IF k \in chosen THEN <<RootEntries[k]>> ELSE <<>>) \o Pick(chosen, k + 1)

\* the filesystem in which the input directory lists the entries of root
World(root) ==
    LET hasSub == \E k \in DOMAIN root : root[k].isDirectory
    IN  /\ listing = (InputDir :> root) @@ (SubDir :> <<FileEntry("b.pdf")>>)
        /\ files = [p \in {join(InputDir, root[k].name) :
                               k \in {j \in DOMAIN root : root[j].isFile}}
                          \cup (IF hasSub THEN {join(SubDir, "b.pdf")} ELSE {}) |->
                       FileBytes(p)]
        /\ dirs = {<<>>, InputDir} \cup (IF hasSub THEN {SubDir} ELSE {})

\* the option objects a caller passes to the constructor
ConstructorInputs ==
    UNION {[D -> BOOLEAN] : D \in SUBSET {"optimizeImages", "removeMetadata"}}
    \cup {[optimizeImages |-> TRUE, imageQuality |-> 60, removeMetadata |-> TRUE,
           compressionLevel |-> 4, grayscale |-> FALSE],
          [imageQuality |-> 0]}

\* the option objects a caller passes to compressPDF
OverrideInputs ==
    {EmptyObject, [removeMetadata |-> TRUE], [removeMetadata |-> FALSE],
     [optimizeImages |-> FALSE]}

\* new PDFCompressor(o)
Construct(o) ==
    /\ options = ConstructorOptions(o)
    /\ strategyOptions = [s \in Strategies |-> BaseStrategyOptions(ConstructorOptions(o))]
    /\ optionsLog = <<[call |-> "constructor", argument |-> o,
                       options |-> ConstructorOptions(o)]>>

Quiet ==
    /\ callLog = <<>>
    /\ uuids = 0
    /\ inv = Idle
    /\ ret = Pending
    /\ stageLog = <<>>
    /\ lastStage = NoStage
    /\ suspended = NoInvocation
    /\ batch = BatchIdle
    /\ batchRet = Pending
    /\ progressLog = <<>>
    /\ stop = NoStop
    /\ cli = CliIdle

\* a PDFCompressor a caller constructed, the input directory listing every entry
\* and a file of no bytes
Init ==
    /\ \E o \in ConstructorInputs : Construct(o)
    /\ World(RootEntries \o <<EmptyEntry>>)
    /\ Quiet

\* a caller's compressor.compressPDF(inputPath, outputPath, options)
CallCompressPDF ==
    /\ inv.pc = "idle"
    /\ \E inputPath \in DOMAIN files \cup {MissingInput},
          overrideOptions \in OverrideInputs :
            Enter(inputPath, join(OutputDir, "result.pdf"), overrideOptions)
    /\ UNCHANGED <<batchVars, suspended, optionVars, dirs, uuids>>

Next ==
    \/ SetOptions
    \/ CallCompressPDF
    \/ CompressStep

Spec == Init /\ [][Next]_vars

\* the option objects a caller passes to the BatchProcessor constructor
BatchConstructorInputs ==
    {EmptyObject, [optimizeImages |-> FALSE, removeMetadata |-> FALSE]}

\* a BatchProcessor a caller constructed (new PDFCompressor(options)), the
\* input directory listing at most MaxEntries entries
BatchInit ==
    /\ \E o \in BatchConstructorInputs : Construct(o)
    /\ \E chosen \in SUBSET DOMAIN RootEntries :
        /\ Cardinality(chosen) <= MaxEntries
        /\ World(Pick(chosen, 1))
    /\ Quiet

\* a caller's processor.processDirectory(inputDir, outputDir, options)
CallProcessDirectory ==
    /\ batch.pc = "idle"
    /\ \E inputDir \in {InputDir, MissingDir}, recursive \in BOOLEAN,
          hasCallback \in BOOLEAN :
            batch' = [BatchIdle EXCEPT !.pc = "pathExists", !.inputDir = inputDir,
                                       !.outputDir = OutputDir,
                                       !.recursive = recursive,
                                       !.hasCallback = hasCallback]
    /\ UNCHANGED <<optionVars, suspended, stop, cli, callLog, files, dirs, uuids, inv, ret, stageLog,
                   lastStage, listing, batchRet, progressLog>>

BatchNext ==
    \/ CallProcessDirectory
    \/ BatchStep
    \/ CompressStep

BatchSpec == BatchInit /\ [][BatchNext]_vars

(***************************************************************************)
(* The directory trees discovery is given: the input directory lists, in   *)
(* any order, some of a PDF file, a PDF file with its extension in upper   *)
(* case, a file that is no PDF, a symbolic link, a directory whose name    *)
(* ends in .pdf, and a subdirectory that holds files and a directory of    *)
(* its own.                                                                *)
(***************************************************************************)
LinkEntry(name) == [name |-> name, isFile |-> FALSE, isDirectory |-> FALSE]

DeepDir == SubDir \o <<"deep">>

PdfDir == InputDir \o <<"dir.pdf">>

FindEntries ==
    <<FileEntry("a.pdf"), DirEntry("sub"), FileEntry("c.PDF"), FileEntry("notes.txt"),
      DirEntry("dir.pdf"), LinkEntry("link.pdf")>>

\* what fs.readdir gives for the directories below the input directory
SubListing(dir) ==
    CASE dir = SubDir -> <<FileEntry("b.pdf"), DirEntry("deep"), FileEntry("e.Pdf")>>
      [] dir = DeepDir -> <<FileEntry("d.pdf"), FileEntry("pdf")>>
      [] dir = PdfDir -> <<FileEntry(".pdf")>>

\* the most entries the input directory lists
MaxListing == 3

\* the listings of the input directory: distinct entries, in any order
RootListings ==
    {[k \in DOMAIN order |-> FindEntries[order[k]]] :
        order \in {o \in UNION {[1..n -> DOMAIN FindEntries] : n \in 0..MaxListing} :
                       \A i, j \in DOMAIN o : i # j => o[i] # o[j]}}

\* the filesystem in which the input directory lists root
FindWorld(root) ==
    LET names == {root[k].name : k \in {j \in DOMAIN root : root[j].isDirectory}}
        below == (IF "sub" \in names THEN {SubDir, DeepDir} ELSE {})
                 \cup (IF "dir.pdf" \in names THEN {PdfDir} ELSE {})
        tree == [d \in {InputDir} \cup below |->
                    IF d = InputDir THEN root ELSE SubListing(d)]
    IN  /\ listing = tree
        /\ files = [p \in UNION {{join(d, tree[d][k].name) :
                                      k \in {j \in DOMAIN tree[d] : tree[d][j].isFile}} :
                                  d \in DOMAIN tree} |-> Bytes(100, FALSE)]
        /\ dirs = {<<>>} \cup DOMAIN tree

\* a BatchProcessor constructed with no options over one of the trees
FindInit ==
    /\ Construct(EmptyObject)
    /\ \E root \in RootListings : FindWorld(root)
    /\ Quiet

\* processDirectory up to the list of files it discovers
FindNext ==
    \/ CallProcessDirectory
    \/ BatchCheckInputDir
    \/ BatchEnsureOutputDir
    \/ FindFiles

FindSpec == FindInit /\ [][FindNext]_vars

(***************************************************************************)
(* A compressor constructed with numbers outside the documented ranges.    *)
(***************************************************************************)
\* option objects whose imageQuality is not in 1..100 or whose
\* compressionLevel is not in 1..5
OutOfRangeInputs ==
    {[imageQuality |-> 150, compressionLevel |-> 9], [imageQuality |-> 101],
     [compressionLevel |-> 6]}

\* a PDFCompressor constructed with one of them, the input directory holding
\* one PDF file
RangeInit ==
    /\ \E o \in OutOfRangeInputs : Construct(o)
    /\ World(<<FileEntry("a.pdf")>>)
    /\ Quiet

RangeSpec == RangeInit /\ [][Next]_vars

(***************************************************************************)
(* A caller that calls setOptions while its compressPDF call is suspended   *)
(* at an await. The invocation's position is the await it is suspended at,  *)
(* and other code of the caller runs between two of its steps.              *)
(***************************************************************************)
\* the most setOptions calls a caller makes during one invocation
MaxMidUpdates == 1

\* a caller's compressor.setOptions(update) while compressPDF is suspended
SetOptionsMidInvocation ==
    /\ inv.pc \notin {"idle", "done"}
    /\ Len(optionsLog) <= MaxMidUpdates
    /\ \E update \in SetOptionsInputs :
        LET updated == setOptions(options, update)
        IN  /\ options' = updated
            /\ strategyOptions' =
                   [s \in Strategies |-> updateOptions(strategyOptions[s], updated)]
            /\ optionsLog' = Append(optionsLog, [call |-> "setOptions",
                                                 argument |-> update,
                                                 options |-> updated])
    /\ UNCHANGED <<batchVars, suspended, callLog, files, dirs, uuids, inv, ret, stageLog, lastStage>>

\* a PDFCompressor constructed with no options, the input directory holding
\* one PDF file
MidInit ==
    /\ Construct(EmptyObject)
    /\ World(<<FileEntry("a.pdf")>>)
    /\ Quiet

MidNext ==
    \/ CallCompressPDF
    \/ CompressStep
    \/ SetOptionsMidInvocation

MidSpec == MidInit /\ [][MidNext]_vars

(***************************************************************************)
(* Two compressPDF invocations of one compressor that overlap in time: a   *)
(* caller calls compressPDF again while its first call is suspended at an  *)
(* await, and from then on the event loop resumes either of the two at     *)
(* each step. The identifiers uuidv4() gives are distinct.                 *)
(***************************************************************************)
\* the running invocation, as it is kept while the other one runs
Running == [inv |-> inv, ret |-> ret, stageLog |-> stageLog, lastStage |-> lastStage]

\* a caller's second compressor.compressPDF(inputPath, outputPath), made while
\* the first one is suspended
CallCompressPDFOverlapping ==
    /\ inv.pc \notin {"idle", "done"}
    /\ suspended = NoInvocation
    /\ suspended' = Running
    /\ Enter(join(InputDir, "a.pdf"), join(OutputDir, "second.pdf"), EmptyObject)
    /\ UNCHANGED <<batchVars, optionVars, dirs, uuids>>

\* the running invocation is suspended at its await and the other one resumes
Switch ==
    /\ suspended # NoInvocation
    /\ suspended.inv.pc # "done"
    /\ inv' = suspended.inv
    /\ ret' = suspended.ret
    /\ stageLog' = suspended.stageLog
    /\ lastStage' = suspended.lastStage
    /\ suspended' = Running
    /\ UNCHANGED <<batchVars, optionVars, callLog, files, dirs, uuids>>

\* a PDFCompressor constructed with the two conditional stages off, the input
\* directory holding one PDF file
OverlapInit ==
    /\ Construct([optimizeImages |-> FALSE, removeMetadata |-> FALSE])
    /\ World(<<FileEntry("a.pdf")>>)
    /\ Quiet

OverlapNext ==
    \/ CallCompressPDF
    \/ CallCompressPDFOverlapping
    \/ Switch
    \/ CompressStep

OverlapSpec == OverlapInit /\ [][OverlapNext]_vars

(***************************************************************************)
(* A batch run its caller asks to stop.                                    *)
(***************************************************************************)
\* a BatchProcessor constructed with the two conditional stages off, the input
\* directory listing two PDF files
StopInit ==
    /\ Construct([optimizeImages |-> FALSE, removeMetadata |-> FALSE])
    /\ World(<<FileEntry("a.pdf"), FileEntry("c.PDF")>>)
    /\ Quiet

StopNext ==
    \/ CallProcessDirectory
    \/ BatchStep
    \/ CompressStep
    \/ RequestStop

StopSpec == StopInit /\ [][StopNext]_vars

(***************************************************************************)
(* A batch run in which every filesystem call and every compressPDF        *)
(* invocation eventually completes: a step of processDirectory or of the   *)
(* compressPDF it awaits that can be taken is taken at last. The caller    *)
(* may never call processDirectory.                                        *)
(***************************************************************************)
\* a BatchProcessor constructed with the two conditional stages off, the input
\* directory listing a PDF file, a subdirectory and a second PDF file
FairInit ==
    /\ Construct([optimizeImages |-> FALSE, removeMetadata |-> FALSE])
    /\ World(<<FileEntry("a.pdf"), DirEntry("sub"), FileEntry("c.PDF")>>)
    /\ Quiet

FairSpec ==
    /\ FairInit
    /\ [][BatchNext]_vars
    /\ WF_vars(BatchStep)
    /\ WF_vars(CompressStep)

(***************************************************************************)
(* The command line program run with its default options on a directory.   *)
(***************************************************************************)
\* the options the action builds its PDFCompressor with (lines 306-312), for
\* a command line that names no option
CliOptions ==
    [optimizeImages |-> TRUE, imageQuality |-> 80, removeMetadata |-> TRUE,
     compressionLevel |-> 3, grayscale |-> FALSE]

\* the input directory lists a PDF file, a subdirectory holding a PDF file,
\* and a file that is no PDF
CliInit ==
    /\ Construct(CliOptions)
    /\ World(<<FileEntry("a.pdf"), DirEntry("sub"), FileEntry("notes.txt")>>)
    /\ Quiet

\* pdf-compressor <input> out, with or without --recursive
CallCli ==
    /\ cli.pc = "idle"
    /\ \E input \in {InputDir, MissingDir}, recursive \in BOOLEAN :
            cli' = [CliIdle EXCEPT !.pc = "stat", !.input = input, !.output = OutputDir,
                                   !.recursive = recursive]
    /\ UNCHANGED <<optionVars, suspended, stop, callLog, files, dirs, uuids, inv, ret,
                   stageLog, lastStage, listing, batch, batchRet, progressLog>>

CliNext ==
    \/ CallCli
    \/ CliStep
    \/ CompressStep

CliSpec == CliInit /\ [][CliNext]_vars

(***************************************************************************)
(* Properties                                                              *)
(***************************************************************************)
StageRan == lastStage.name # "none"

\* C1: whenever the document codec raised inside a stage's optimize call, the
\* call did not raise and the file at its output path holds exactly the bytes
\* of its input; and a stage that returned normally left a file at its output
\* path.
C1_StageContainment ==
    StageRan =>
        /\ lastStage.codecFailed =>
            /\ ~lastStage.raised
            /\ lastStage.output \in DOMAIN files
            /\ files[lastStage.output] = lastStage.inputBytes
        /\ ~lastStage.raised => lastStage.output \in DOMAIN files

\* C2: a failure inside a stage's optimize call never makes compressPDF raise:
\* the invocation has not ended by raising out of a stage.
C2_StageFailureNeverFailsInvocation ==
    ~(StageRan /\ lastStage.raised /\ ret.kind = "raised")

\* the files processDirectory discovers
Discovered == _findPDFFiles(listing, batch.inputDir, batch.recursive)

\* C3: once processDirectory has discovered its files, an error while handling
\* one of them never makes it raise; when it returns, every discovered file has
\* its record, a failed one carrying the file's path and the error's message.
C3_PerFileIsolation ==
    /\ (batchRet.kind = "raised" => batch.pc = "done" /\ Len(batch.files) = 0)
    /\ (batchRet.kind = "returned" /\ Len(batch.files) > 0 =>
            /\ Len(batchRet.result.results) = Len(batch.files)
            /\ \A k \in DOMAIN batchRet.result.results :
                 LET r == batchRet.result.results[k]
                 IN  /\ r.inputFile = batch.files[k]
                     /\ "error" \in DOMAIN r \/ "inputSize" \in DOMAIN r)

\* C4: every BatchResult processDirectory returns has filesProcessed equal to
\* the number of discovered files and to filesSucceeded + filesFailed.
C4_CountsAddUp ==
    batchRet.kind = "returned" =>
        LET r == batchRet.result
        IN  /\ r.filesProcessed = Len(Discovered)
            /\ "filesSucceeded" \in DOMAIN r
            /\ "filesFailed" \in DOMAIN r
            /\ r.filesProcessed = r.filesSucceeded + r.filesFailed

RECURSIVE SumOver(_, _, _)
\* the sum of field over the records of seq that have it
SumOver(seq, field, k) ==
    IF k > Len(seq) THEN 0
    ELSE (IF field \in DOMAIN seq[k] THEN seq[k][field] ELSE 0) + SumOver(seq, field, k + 1)

\* C5: in every BatchResult, totalInputSize and totalOutputSize are the sums of
\* inputSize and outputSize over the files whose compressPDF call returned, and
\* totalSavings = totalInputSize - totalOutputSize.
C5_TotalsOverSucceeded ==
    batchRet.kind = "returned" =>
        LET r == batchRet.result
        IN  /\ {"totalInputSize", "totalOutputSize", "totalSavings"} \subseteq DOMAIN r
            /\ r.totalInputSize = SumOver(batch.results, "inputSize", 1)
            /\ r.totalOutputSize = SumOver(batch.results, "outputSize", 1)
            /\ r.totalSavings = r.totalInputSize - r.totalOutputSize

\* C6: when a compressPDF invocation that created a workspace has ended, by
\* returning or by raising, the workspace directory is gone.
C6_WorkspaceRemoved ==
    inv.pc = "done" /\ inv.tempDir # <<>> => inv.tempDir \notin dirs

\* C7: every CompressionResult has outputSize >= 0 and savings = inputSize -
\* outputSize, inputSize being the size of the file at inputPath and outputSize
\* the size of the file at outputPath.
C7_SavingsExact ==
    ret.kind = "returned" =>
        LET r == ret.result
        IN  /\ r.outputSize >= 0
            /\ r.savings = r.inputSize - r.outputSize
            /\ r.inputSize = files[r.inputPath].size
            /\ r.outputSize = files[r.outputPath].size

\* C7's case: a result whose output is larger than its input
C7_Witness ==
    /\ ret.kind = "returned"
    /\ ret.result.savings < 0
    /\ ret.result.inputSize > 0

\* C8: a CompressionResult with inputSize = 0 has percentReduction "0.00%".
C8_ZeroInputPercent ==
    ret.kind = "returned" /\ ret.result.inputSize = 0 =>
        ret.result.percentReduction = "0.00%"

\* C9: compressPDF on an inputPath that does not exist never goes past its
\* check, ends by raising an error that names the path, draws no workspace
\* name, creates no directory, runs no stage and writes nothing at outputPath.
C9_MissingInput ==
    inv.pc # "idle" /\ inv.inputPath \notin DOMAIN files =>
        /\ inv.pc \in {"pathExists", "done"}
        /\ inv.pc = "done" =>
            /\ ret.kind = "raised"
            /\ ret.message = "PDF compression failed: Input file does not exist: "
                                \o PathStr(inv.inputPath)
        /\ uuids = 0
        /\ inv.tempDir = <<>>
        /\ \A d \in dirs : ~IsPrefix(<<"temp">>, d)
        /\ stageLog = <<>>
        /\ inv.outputPath \notin DOMAIN files

\* C9's case: an invocation on a missing input has ended
C9_Witness ==
    /\ inv.pc = "done"
    /\ inv.inputPath = MissingInput
    /\ ret.kind = "raised"

\* the stages compressPDF is to run under the options o, in order
ExpectedStages(o) ==
    (IF o.removeMetadata THEN <<"metadata">> ELSE <<>>)
    \o (IF o.optimizeImages THEN <<"image">> ELSE <<>>)
    \o <<"quality", "page">>

\* the stages that lie before the position pc of compressPDF
StagesBefore(pc) ==
    CASE pc \in {"pathExists", "ensureTemp", "statInput", "copyWorking", "metadata"} -> {}
      [] pc = "image" -> {"metadata"}
      [] pc = "quality" -> {"metadata", "image"}
      [] pc = "page" -> {"metadata", "image", "quality"}
      [] OTHER -> {"metadata", "image", "quality", "page"}

\* C10: the stages run only in the order MetadataStrip, ImageRecompress,
\* QualityReduce, PageOptimize: at every position of an invocation the stages
\* run so far are exactly the enabled ones that lie before it (MetadataStrip
\* iff removeMetadata, ImageRecompress iff optimizeImages, the other two
\* always), an invocation that raised has run a prefix of them, the first
\* stage read the working copy and every other one the output of the stage
\* before it, and the file copied to outputPath is the output of PageOptimize.
C10_StageOrder ==
    inv.pc # "idle" =>
        LET expected == ExpectedStages(inv.currentOptions)
            ran == [k \in DOMAIN stageLog |-> stageLog[k].stage]
        IN  /\ Len(ran) <= Len(expected)
            /\ ran = SubSeq(expected, 1, Len(ran))
            /\ ret.kind # "raised" =>
                 ran = SelectSeq(expected, LAMBDA n : n \in StagesBefore(inv.pc))
            /\ \A k \in DOMAIN stageLog :
                 /\ stageLog[k].input = IF k = 1 THEN join(inv.tempDir, "working.pdf")
                                        ELSE stageLog[k - 1].output
                 /\ \A j \in DOMAIN stageLog : j # k => stageLog[j].output # stageLog[k].output
            /\ inv.pc \in {"statOut", "removeTemp"} =>
                 /\ stageLog[Len(stageLog)].stage = "page"
                 /\ inv.currentFile = stageLog[Len(stageLog)].output
                 /\ files[inv.outputPath] = files[stageLog[Len(stageLog)].output]

\* C10's case: an invocation returned having skipped one conditional stage
C10_Witness ==
    /\ ret.kind = "returned"
    /\ Len(stageLog) = 3
    /\ ~inv.currentOptions.removeMetadata

\* C11: a compressPDF call takes as its effective options the instance's
\* options with every field of the call's override put over them (the
\* override's value for a field it supplies, the instance's for one it omits),
\* keeps them to its end, and no step of the call changes the instance's
\* options or what getOptions returns.
C11_EffectiveOptions ==
    [][/\ (inv'.pc = "pathExists" /\ inv' # inv) =>
             inv'.currentOptions =
                 [f \in OptionFields |->
                     IF f \in DOMAIN inv'.overrideOptions
                     THEN inv'.overrideOptions[f] ELSE options[f]]
       /\ (inv.pc \notin {"idle", "done"}) => inv'.currentOptions = inv.currentOptions
       /\ (inv' # inv) => options' = options /\ getOptions' = getOptions]_vars

\* C11's case: a call returned whose override turned off a stage that the
\* instance's options, set by the constructor and by setOptions, have on
C11_Witness ==
    /\ ret.kind = "returned"
    /\ Len(optionsLog) > 1
    /\ inv.overrideOptions = [removeMetadata |-> FALSE]
    /\ options.removeMetadata
    /\ ~inv.currentOptions.removeMetadata
    /\ inv.currentOptions.imageQuality = options.imageQuality

\* C12: whenever the MetadataStrip stage ran in an invocation whose effective
\* options have removeMetadata on, and nothing in it failed, it cleared the
\* metadata fields and re-serialized the document.
C12_MetadataCleared ==
    /\ lastStage.name = "metadata"
    /\ inv.currentOptions.removeMetadata
    /\ ~lastStage.codecFailed
    /\ ~lastStage.ioFailed
    => lastStage.cleared

\* C13: after the constructor and after every setOptions call the options
\* have all five fields, each with a value of its type; a field the
\* constructor was not given has its default (true, 80, true, 3, false) and a
\* field a setOptions call was not given has the value it had before the call.
C13_OptionsFullyPopulated ==
    LET defaults == [optimizeImages |-> TRUE, imageQuality |-> 80,
                     removeMetadata |-> TRUE, compressionLevel |-> 3,
                     grayscale |-> FALSE]
    IN  /\ optionsLog[Len(optionsLog)].options = options
        /\ DOMAIN options = OptionFields
        /\ options.optimizeImages \in BOOLEAN
        /\ options.removeMetadata \in BOOLEAN
        /\ options.grayscale \in BOOLEAN
        /\ options.imageQuality \in Nat
        /\ options.compressionLevel \in Nat
        /\ \A k \in DOMAIN optionsLog :
             \A f \in OptionFields \ DOMAIN optionsLog[k].argument :
                 optionsLog[k].options[f] =
                     IF k = 1 THEN defaults[f] ELSE optionsLog[k - 1].options[f]

\* C13's case: a compressor constructed with one field, then updated twice
C13_Witness ==
    /\ Len(optionsLog) >= 3
    /\ DOMAIN optionsLog[1].argument = {"removeMetadata"}
    /\ DOMAIN optionsLog[3].argument # OptionFields

\* C14: setOptions(u) applied twice gives the options it gives applied once,
\* and after setOptions(u1) then setOptions(u2) every field has the value of
\* the last of the two that supplied it, or the value it had before them.
C14_SetOptionsLastWriteWins ==
    /\ \A u \in SetOptionsInputs :
         setOptions(setOptions(options, u), u) = setOptions(options, u)
    /\ \A k \in 3..Len(optionsLog) :
         LET before == optionsLog[k - 2].options
             u1 == optionsLog[k - 1].argument
             u2 == optionsLog[k].argument
             after == optionsLog[k].options
         IN  /\ u1 = u2 => after = optionsLog[k - 1].options
             /\ \A f \in OptionFields :
                  after[f] = IF f \in DOMAIN u2 THEN u2[f]
                             ELSE IF f \in DOMAIN u1 THEN u1[f]
                             ELSE before[f]

\* C14's case: the same update applied twice, the first time changing a field
C14_Witness ==
    /\ Len(optionsLog) >= 3
    /\ optionsLog[2].argument = optionsLog[3].argument
    /\ optionsLog[2].options # optionsLog[1].options

\* C15: when processDirectory has ended on an existing directory in which no
\* PDF file is discovered, it has returned (a raise is a filesystem call's
\* failure only) an object with filesProcessed = 0 and percentReduction =
\* "0.00%", and neither compressPDF nor the progress callback was called.
C15_EmptyDirectory ==
    /\ batch.pc = "done"
    /\ Len(batch.files) = 0
    /\ batch.inputDir \in dirs
    /\ Len(Discovered) = 0
    => /\ batchRet.kind \in {"returned", "raised"}
       /\ batchRet.kind = "raised" => batchRet.message = IOError
       /\ batchRet.kind = "returned" =>
            /\ batchRet.result.filesProcessed = 0
            /\ batchRet.result.percentReduction = "0.00%"
       /\ callLog = <<>>
       /\ inv = Idle
       /\ uuids = 0
       /\ progressLog = <<>>

\* C15's case: a directory that lists entries, none of them a PDF to discover,
\* processed with a progress callback
C15_Witness ==
    /\ batchRet.kind = "returned"
    /\ batchRet.result.filesProcessed = 0
    /\ batch.hasCallback
    /\ Len(listing[batch.inputDir]) > 1

\* C16: with a progress callback, the k-th call of it carries the k-th
\* discovered file, index k - 1, the number N of discovered files and the
\* progress (k - 1) / N * 100; while compressPDF runs for a file the callback
\* has been called for exactly the files up to it; and when processDirectory
\* has ended the callback was called once for each discovered file.
C16_ProgressPerFile ==
    batch.hasCallback =>
        /\ \A k \in DOMAIN progressLog :
             progressLog[k] = [currentFile |-> batch.files[k], currentIndex |-> k - 1,
                               totalFiles |-> Len(batch.files),
                               progress |-> <<(k - 1) * 100, Len(batch.files)>>]
        /\ batch.pc = "compress" =>
             /\ Len(progressLog) = batch.i + 1
             /\ progressLog[Len(progressLog)].currentFile = inv.inputPath
        /\ batch.pc = "done" /\ Len(batch.files) > 0 =>
             Len(progressLog) = Len(batch.files)

\* the progress callback raised for the k-th file
NotificationFailed(k) ==
    /\ "error" \in DOMAIN batch.results[k]
    /\ batch.results[k].error \in CallbackErrors

\* C17: once the progress callback has raised for some file, processDirectory
\* does not raise, and when it ends it has returned its result.
C17_NotificationContained ==
    (\E k \in DOMAIN batch.results : NotificationFailed(k)) =>
        /\ batchRet.kind # "raised"
        /\ batch.pc = "done" => batchRet.kind = "returned"

\* C18: processDirectory calls compressPDF only when no invocation is running,
\* the k-th call is for the k-th discovered file and its output path, and
\* when processDirectory has ended there was one call per discovered file.
C18_PipelineOncePerFile ==
    /\ batch.pc = "try" => inv.pc \in {"idle", "done"}
    /\ \A k \in DOMAIN callLog :
         /\ callLog[k].inputPath = batch.files[k]
         /\ callLog[k].outputPath =
                OutputFileOf(batch.inputDir, batch.outputDir, batch.files[k])
    /\ batch.pc = "done" /\ Len(batch.files) > 0 => Len(callLog) = Len(batch.files)

\* the record list of a returned result: one record per discovered file, in
\* discovery order, a failure record or a success record with the file's sizes
RecordsInDiscoveryOrder ==
    batchRet.kind = "returned" /\ Len(batch.files) > 0 =>
        LET rs == batchRet.result.results
        IN  /\ Len(rs) = Len(batch.files)
            /\ \A k \in DOMAIN rs :
                 /\ rs[k].inputFile = batch.files[k]
                 /\ rs[k].outputFile =
                        OutputFileOf(batch.inputDir, batch.outputDir, batch.files[k])
                 /\ IF "error" \in DOMAIN rs[k]
                    THEN DOMAIN rs[k] = {"inputFile", "outputFile", "error"}
                    ELSE /\ DOMAIN rs[k] = {"inputFile", "outputFile", "inputSize",
                                            "outputSize", "savings", "percentReduction"}
                         /\ rs[k].inputSize = files[rs[k].inputFile].size
                         /\ rs[k].outputSize = files[rs[k].outputFile].size
                         /\ rs[k].savings = rs[k].inputSize - rs[k].outputSize

\* the record pushed for a file says how its handling ended: a success record
\* with the sizes compressPDF returned, a failure record with the message of
\* the error compressPDF or the progress callback raised
RecordTellsOutcome ==
    LET r == batch'.results[Len(batch'.results)]
    IN  /\ (batch.pc = "compress" /\ batch'.pc # "compress") =>
             /\ Len(batch'.results) = Len(batch.results) + 1
             /\ r.inputFile = inv.inputPath
             /\ IF ret.kind = "returned"
                THEN /\ "error" \notin DOMAIN r
                     /\ r.inputSize = ret.result.inputSize
                     /\ r.outputSize = ret.result.outputSize
                ELSE /\ "error" \in DOMAIN r
                     /\ r.error = ret.message
        /\ (batch.pc = "try" /\ batch'.pc \notin {"try", "compress"}) =>
             /\ Len(batch'.results) = Len(batch.results) + 1
             /\ r.inputFile = batch.files[batch.i + 1]
             /\ "error" \in DOMAIN r
             /\ r.error \in CallbackErrors

\* C19: the results of a BatchResult returned for one or more discovered
\* files hold exactly one record per discovered file, in discovery order,
\* record k being a success record with the sizes of the k-th file if its
\* compressPDF call returned and a failure record with its path and the
\* error's message otherwise.
C19_RecordPerFile == []RecordsInDiscoveryOrder /\ [][RecordTellsOutcome]_vars

\* C19's case: three files, the second one failed, the others compressed
C19_Witness ==
    /\ batchRet.kind = "returned"
    /\ Len(batch.files) = 3
    /\ "error" \notin DOMAIN batchRet.result.results[1]
    /\ "error" \in DOMAIN batchRet.result.results[2]
    /\ "error" \notin DOMAIN batchRet.result.results[3]

\* a name that ends in ".pdf", whatever the case of its letters
IsPdfName(name) ==
    LET n == Len(name)
    IN  /\ n >= 4
        /\ SubSeq(name, n - 3, n - 3) = "."
        /\ SubSeq(name, n - 2, n - 2) \in {"p", "P"}
        /\ SubSeq(name, n - 1, n - 1) \in {"d", "D"}
        /\ SubSeq(name, n, n) \in {"f", "F"}

\* dir is the input directory or lies below it through directory entries only
IsSearched(dir) ==
    /\ dir \in DOMAIN listing
    /\ IsPrefix(batch.inputDir, dir)
    /\ batch.recursive \/ dir = batch.inputDir
    /\ \A k \in (Len(batch.inputDir) + 1)..Len(dir) :
         \E e \in {listing[SubSeq(dir, 1, k - 1)][j] :
                        j \in DOMAIN listing[SubSeq(dir, 1, k - 1)]} :
             e.name = dir[k] /\ e.isDirectory

\* the regular files discovery is to collect
PdfFilesToCollect ==
    UNION {{join(d, listing[d][k].name) :
               k \in {j \in DOMAIN listing[d] :
                          listing[d][j].isFile /\ IsPdfName(listing[d][j].name)}} :
           d \in {dir \in DOMAIN listing : IsSearched(dir)}}

\* the position of the entry called name in the listing of dir
PositionIn(dir, name) ==
    CHOOSE j \in DOMAIN listing[dir] : listing[dir][j].name = name

\* the positions, from the input directory down, of the entries that lead to p
PositionPath(p) ==
    LET depth == Len(p.dir) - Len(batch.inputDir)
    IN  [k \in 1..(depth + 1) |->
            IF k <= depth
            THEN PositionIn(SubSeq(p.dir, 1, Len(batch.inputDir) + k - 1),
                            p.dir[Len(batch.inputDir) + k])
            ELSE PositionIn(p.dir, p.name)]

ComesBefore(a, b) ==
    \E k \in DOMAIN a \cap DOMAIN b :
        /\ a[k] < b[k]
        /\ \A j \in 1..(k - 1) : a[j] = b[j]

\* C20: the list discovery gives holds exactly the regular files whose name
\* ends in ".pdf" in any case, those directly in inputDir when recursive is
\* off and those at any depth below it when it is on, each once, in the order
\* of the listings with the files of a subdirectory at the place of that
\* subdirectory in its parent's listing.
C20_Discovery ==
    batch.pc = "loopEnsureDir" \/ (batch.pc = "done" /\ batchRet.kind = "returned") =>
        LET found == batch.files
        IN  /\ {found[k] : k \in DOMAIN found} = PdfFilesToCollect
            /\ \A i, j \in DOMAIN found :
                 i < j => /\ found[i] # found[j]
                          /\ ComesBefore(PositionPath(found[i]), PositionPath(found[j]))

\* C20's case: a recursive discovery that found files at two depths below the
\* input directory, after a file of the input directory itself
C20_Witness ==
    /\ batch.pc = "loopEnsureDir"
    /\ batch.recursive
    /\ Len(batch.files) >= 5
    /\ batch.files[1] = join(InputDir, "c.PDF")
    /\ \E k \in DOMAIN batch.files : batch.files[k] = join(DeepDir, "d.pdf")

\* C21: processDirectory called on an input directory that does not exist
\* ends at its existence check by raising "Input directory does not exist:
\* <inputDir>"; no file was discovered, compressPDF was not called, the
\* output directory was not created and the progress callback was not called.
C21_MissingInputDir ==
    batch.pc # "idle" /\ batch.inputDir \notin dirs =>
        /\ batch.pc \in {"pathExists", "done"}
        /\ batch.pc = "done" =>
             batchRet = [kind |-> "raised",
                         message |-> "Input directory does not exist: "
                                         \o DirStr(batch.inputDir)]
        /\ batch.files = <<>>
        /\ callLog = <<>>
        /\ inv = Idle
        /\ batch.outputDir \notin dirs
        /\ progressLog = <<>>

\* C21's case: processDirectory has ended on the missing directory, called
\* with a progress callback
C21_Witness ==
    /\ batch.pc = "done"
    /\ batch.inputDir = MissingDir
    /\ batch.hasCallback
    /\ batchRet.kind = "raised"

\* C24: the removal of the workspace is best effort: the step of compressPDF
\* that removes it, which comes after the output file was written and
\* measured, never makes the invocation raise; the invocation ends there by
\* returning its result.
C24_RemovalBestEffort ==
    [][inv.pc = "removeTemp" /\ inv'.pc = "done" =>
           ret' = [kind |-> "returned",
                   result |-> CompressionResult(inv.initialSize, inv.finalSize,
                                                inv.inputPath, inv.outputPath)]]_vars

\* every optimize call of the invocation left at its output the bytes of its input
AllStagesPassThrough ==
    \A k \in DOMAIN stageLog : files[stageLog[k].output] = files[stageLog[k].input]

\* the invocation's step from its last await to its return
ReturnsFromRemoveTemp == inv.pc = "removeTemp" /\ ret'.kind = "returned"

\* C25: when every stage an invocation executed passed its input through
\* unchanged, the file written at outputPath holds the bytes of the input file
\* and its measured size is the input's, and the result the invocation returns
\* has outputSize = inputSize, savings = 0 and, for a non-empty input,
\* percentReduction = "0.00%".
C25_PassThroughIdentity ==
    /\ [](inv.pc = "removeTemp" /\ AllStagesPassThrough =>
            /\ files[inv.outputPath] = files[inv.inputPath]
            /\ inv.initialSize = files[inv.inputPath].size
            /\ inv.finalSize = inv.initialSize)
    /\ [][ReturnsFromRemoveTemp /\ AllStagesPassThrough =>
            /\ files'[inv.outputPath] = files'[inv.inputPath]
            /\ ret'.result.inputSize = files'[inv.inputPath].size
            /\ ret'.result.outputSize = ret'.result.inputSize
            /\ ret'.result.savings = 0
            /\ ret'.result.inputSize > 0 => ret'.result.percentReduction = "0.00%"]_vars

\* C25's case: the four stages ran on a non-empty input, each passed its input
\* through, and the output file is written and measured
C25_Witness ==
    /\ inv.pc = "removeTemp"
    /\ Len(stageLog) = 4
    /\ AllStagesPassThrough
    /\ inv.initialSize > 0

FilesRaised ==
    {k \in DOMAIN batchRet.result.results : "error" \in DOMAIN batchRet.result.results[k]}

\* C29: in the result processDirectory returns for one or more discovered
\* files, filesFailed is the number of files whose handling raised an error
\* (those with a failure record), whatever the error's message is, and
\* filesSucceeded is the number of the other files, those for which compressPDF
\* returned a result.
C29_CountsByOutcome ==
    batchRet.kind = "returned" /\ Len(batch.files) > 0 =>
        /\ batchRet.result.filesFailed = Cardinality(FilesRaised)
        /\ batchRet.result.filesSucceeded = Len(batch.files) - Cardinality(FilesRaised)

\* C28: the options of the compressor, after the constructor and after every
\* setOptions call, and the effective options of every invocation, have an
\* imageQuality in 1..100 and a compressionLevel in 1..5.
C28_OptionRanges ==
    /\ options.imageQuality \in 1..100
    /\ options.compressionLevel \in 1..5
    /\ inv.pc # "idle" =>
         /\ inv.currentOptions.imageQuality \in 1..100
         /\ inv.currentOptions.compressionLevel \in 1..5

\* C22: an invocation runs every stage under the options in force when it
\* started, whatever setOptions calls are made while it is suspended: the
\* stages run are those its effective options enable, QualityReduce sees the
\* effective compressionLevel and grayscale, and a MetadataStrip stage in which
\* nothing failed, run by a call whose override does not name removeMetadata,
\* cleared the metadata.
C22_OptionsFixedDuringInvocation ==
    /\ \A k \in DOMAIN stageLog :
         /\ stageLog[k].stage = ExpectedStages(inv.currentOptions)[k]
         /\ stageLog[k].stage = "quality" =>
              /\ stageLog[k].options.compressionLevel = inv.currentOptions.compressionLevel
              /\ stageLog[k].options.grayscale = inv.currentOptions.grayscale
    /\ (/\ lastStage.name = "metadata"
        /\ "removeMetadata" \notin DOMAIN inv.overrideOptions
        /\ ~lastStage.codecFailed
        /\ ~lastStage.ioFailed) => lastStage.cleared

\* the artifact paths the invocation i, whose optimize calls are log, has read
\* and written lie in its own workspace
UsesOwnWorkspace(i, log) ==
    /\ i.currentFile # NoPath => i.currentFile.dir = i.tempDir
    /\ \A k \in DOMAIN log :
         /\ log[k].input.dir = i.tempDir
         /\ log[k].output.dir = i.tempDir

\* two invocations that have not ended have workspaces neither of which is, or
\* lies in, the other, and each has read and written its own artifacts only
WorkspacesDistinct ==
    HasWorkspace(inv) /\ HasWorkspace(suspended.inv) =>
        /\ ~IsPrefix(inv.tempDir, suspended.inv.tempDir)
        /\ ~IsPrefix(suspended.inv.tempDir, inv.tempDir)
        /\ UsesOwnWorkspace(inv, stageLog)
        /\ UsesOwnWorkspace(suspended.inv, suspended.stageLog)

\* a step of the running invocation creates, changes and removes no file of
\* the suspended invocation's workspace, and does not remove the workspace
OtherWorkspaceUntouched ==
    suspended' = suspended /\ HasWorkspace(suspended.inv) =>
        /\ suspended.inv.tempDir \in dirs'
        /\ \A p \in DOMAIN files \cup DOMAIN files' :
             IsPrefix(suspended.inv.tempDir, p.dir) =>
                 /\ p \in DOMAIN files
                 /\ p \in DOMAIN files'
                 /\ files'[p] = files[p]

\* C23: two compressPDF invocations that overlap in time have distinct
\* workspaces, and no artifact path of one (working, metadata-optimized,
\* image-optimized, quality-optimized, page-optimized) is read, written or
\* removed by the other.
C23_WorkspaceIsolation == []WorkspacesDistinct /\ [][OtherWorkspaceUntouched]_vars

\* C23's case: two invocations on the same input file, each suspended after a
\* stage of its own, both workspaces on disk
C23_Witness ==
    /\ HasWorkspace(inv)
    /\ HasWorkspace(suspended.inv)
    /\ inv.inputPath = suspended.inv.inputPath
    /\ Len(stageLog) > 0
    /\ Len(suspended.stageLog) > 0

\* C26: a batch run stops between files: once a stop was requested while the
\* file of index i was in flight, that file is finished and no file after it
\* is handled, so the run has ended as soon as it is past that file, and the
\* result it returns covers exactly the i + 1 files handled, in its records,
\* its counts and its totals.
C26_StopBetweenFiles ==
    stop.requested =>
        /\ batch.i > stop.at => batch.pc = "done"
        /\ batchRet.kind = "returned" =>
             LET r == batchRet.result
             IN  /\ Len(r.results) = stop.at + 1
                 /\ r.filesSucceeded + r.filesFailed = stop.at + 1
                 /\ r.totalInputSize = SumOver(r.results, "inputSize", 1)
                 /\ r.totalOutputSize = SumOver(r.results, "outputSize", 1)

\* the lines the program printed for the outcome of a file, in order
CliFileLines ==
    SelectSeq(cli.printed, LAMBDA l : l.line \in {"Original", "Error compressing"})

\* C27: a directory run of the command line program exits with code 1 only
\* on a failure that comes before any file is handled; once PDF files were
\* found the run ends with code 0, having printed for each of them, in order,
\* either its sizes or its error, and the totals it prints are the sums over
\* the files that were compressed.
C27_CliPerFileErrors ==
    cli.pc = "exited" =>
        /\ cli.exitCode = 1 => Len(cli.pdfFiles) = 0
        /\ Len(cli.pdfFiles) > 0 =>
             /\ cli.exitCode = 0
             /\ Len(CliFileLines) = Len(cli.pdfFiles)
             /\ \A k \in DOMAIN CliFileLines :
                  CliFileLines[k].inputFile = cli.pdfFiles[k]
             /\ \A k \in DOMAIN cli.printed :
                  cli.printed[k].line = "Total" =>
                      /\ cli.printed[k].original = SumOver(CliFileLines, "original", 1)
                      /\ cli.printed[k].compressed =
                             SumOver(CliFileLines, "compressed", 1)

\* C32: after the constructor and after every setOptions call, the options of
\* each of the four strategies (image, quality, metadata, page) have the
\* fields of the compressor's options, each with the same value.
C32_StrategiesInSync ==
    /\ DOMAIN strategyOptions = Strategies
    /\ \A s \in Strategies :
         /\ DOMAIN strategyOptions[s] = DOMAIN options
         /\ \A f \in DOMAIN options : strategyOptions[s][f] = options[f]

\* C32's case: a compressor constructed with one field and updated twice, the
\* last update changing a field the constructor defaulted
C32_Witness ==
    /\ Len(optionsLog) = 3
    /\ DOMAIN optionsLog[1].argument = {"optimizeImages"}
    /\ optionsLog[3].argument = [imageQuality |-> 50, grayscale |-> TRUE]
    /\ options.grayscale

\* the input file of the invocation, if the call named an existing one, exists
\* and holds the bytes it held before the invocation
InputIntact ==
    inv.pc # "idle" /\ inv.inputPath # MissingInput =>
        /\ inv.inputPath \in DOMAIN files
        /\ files[inv.inputPath] = FileBytes(inv.inputPath)

\* the file at p is created, changed or removed by the step
Touched(p) ==
    \/ p \in DOMAIN files /\ p \notin DOMAIN files'
    \/ p \notin DOMAIN files /\ p \in DOMAIN files'
    \/ p \in DOMAIN files /\ p \in DOMAIN files' /\ files'[p] # files[p]

\* a step of an invocation touches no file but those of its workspace and the
\* one at outputPath, which it never removes
WritesOwnArtifactsOnly ==
    inv.pc \notin {"idle", "done"} =>
        \A p \in DOMAIN files \cup DOMAIN files' :
            Touched(p) =>
                \/ p = inv.outputPath /\ p \in DOMAIN files'
                \/ inv.tempDir # <<>> /\ p.dir = inv.tempDir

\* C31: compressPDF called with an outputPath other than its inputPath never
\* writes to, truncates or removes the file at inputPath: during the
\* invocation and after it, whether it returned or raised, the input file
\* holds the bytes it held before; and every file a step of the invocation
\* creates, changes or removes lies in the invocation's workspace, but for the
\* file it writes at outputPath.
C31_InputUntouched == []InputIntact /\ [][WritesOwnArtifactsOnly]_vars

\* C31's case: an invocation that returned, having written at outputPath
\* bytes other than the input's
C31_Witness ==
    /\ inv.pc = "done"
    /\ ret.kind = "returned"
    /\ inv.outputPath # inv.inputPath
    /\ files[inv.outputPath] # files[inv.inputPath]

\* no element occurs twice in the sequence
NoDuplicates(seq) == \A j, k \in DOMAIN seq : j # k => seq[j] # seq[k]

\* processDirectory has ended: it returned its result or raised
BatchFinished == batch.pc = "done" /\ batchRet.kind \in {"returned", "raised"}

\* the loop index never decreases and never passes the number of files
IndexOnlyIncreases == batch'.i >= batch.i /\ batch'.i <= Len(batch'.files)

\* the files of indexes below i, and no others, were handled, each once: one
\* record each, in discovery order, and at most one compressPDF call each
HandledOnce ==
    /\ NoDuplicates(batch.files)
    /\ Len(batch.results) <= Len(batch.files)
    /\ batch.pc \in {"loopEnsureDir", "try", "compress"} => Len(batch.results) = batch.i
    /\ \A k \in DOMAIN batch.results : batch.results[k].inputFile = batch.files[k]
    /\ NoDuplicates([k \in DOMAIN callLog |-> callLog[k].inputPath])
    /\ \A k \in DOMAIN callLog : \E j \in 1..(batch.i + 1) :
           j <= Len(batch.files) /\ callLog[k].inputPath = batch.files[j]

\* discovery reads the input directory first and no directory twice, and
\* only the input directory when it is not recursive
DirectoriesReadOnce ==
    batch.pc \in {"loopEnsureDir", "try", "compress"} =>
        LET calls == ReaddirCalls(listing, batch.inputDir, batch.recursive)
        IN  /\ NoDuplicates(calls)
            /\ calls[1] = batch.inputDir
            /\ ~batch.recursive => calls = <<batch.inputDir>>
            /\ \A j \in DOMAIN listing[batch.inputDir] :
                   batch.recursive /\ listing[batch.inputDir][j].isDirectory =>
                       \E k \in DOMAIN calls :
                           calls[k] = batch.inputDir \o <<listing[batch.inputDir][j].name>>

\* C33: when every filesystem call and every compressPDF invocation eventually
\* completes, a processDirectory that was called eventually ends, returning
\* its result or raising; until then its loop index only increases, each
\* discovered file is handled at most once, and discovery reads each directory
\* once.
C33_BatchTerminates ==
    /\ (batch.pc # "idle") ~> BatchFinished
    /\ [][IndexOnlyIncreases]_vars
    /\ []HandledOnce
    /\ []DirectoriesReadOnce

\* C33's case: a recursive run over the three files of the tree that returned
\* after one compressPDF call per file
C33_Witness ==
    /\ BatchFinished
    /\ batchRet.kind = "returned"
    /\ batch.recursive
    /\ Len(batch.files) = 3
    /\ batch.i = 3
    /\ Len(callLog) = 3

====
